---- MODULE Spec2Model ----
(***************************************************************************)
(* The similarity index and the plagiarism scoring of the code plagiarism  *)
(* detector: utils/similarity.py (SimilarityChecker), utils/plagiarism.py  *)
(* (PlagiarismChecker) and the /check handler of backend/main.py.          *)
(*                                                                         *)
(* Numbers.  Floats are fixed-point integers in units of 10^-5: a cosine   *)
(* score of 0.70004 is 70004, a percentage of 70.004 is 7000400, and       *)
(* round(x, 2) rounds to a multiple of 1000.                               *)
(*                                                                         *)
(* Embeddings.  An embedding is a direction (one of five unit vectors of   *)
(* the plane, see CosTable) and a magnitude; normalising sets the          *)
(* magnitude to 1, and the inner product of two embeddings is the cosine   *)
(* of their directions times their magnitudes.                             *)
(*                                                                         *)
(* Metadata.  A metadata record is modelled by the one thing the           *)
(* properties read of it: `ordinal`, the ordinal id (from 1) that the      *)
(* embedding supplied at the same position of the same add call receives,  *)
(* or 0 for a record supplied beyond the embeddings of its call.           *)
(***************************************************************************)
EXTENDS Integers, Sequences, FiniteSets, TLC

\* ------------------------------------------------------------------ bounds
\* The most vectors the index holds under Spec (add, save, load) and under
\* SpecCompare.
MaxStoredLifecycle == 2
\* The most vectors the index holds under SpecQuery and SpecCheck.
MaxStored == 4
\* The most embeddings, and the most metadata records, of one add call, and
\* the most chunks of an ingested document.
MaxBatch == 2
\* The most chunks of a checked document.
MaxDocChunks == 2
\* The most by which an add call leaves the lengths of the index and of the
\* metadata list apart.
MaxSkew == 1
\* The most repositories of one comparison.
MaxRepos == 3
\* The most submissions the databases hold under SpecCompare, SpecIngest and
\* SpecServer.
MaxSubmissions == 3
\* The most words of a chunked text.
MaxWords == 6
\* The greatest max_chunk_size of a chunking.
MaxChunkSize == 4
\* The most chunks of a document SpecDocument checks.
MaxLongDocChunks == 4

\* --------------------------------------------------------------- numbers
\* 1.0 in fixed point.
One == 10^5
\* 100.0, of `100 - plagiarism_percentage` and `score * 100`.
Hundred == 100 * One

Min(a, b) == IF a <= b THEN a ELSE b
Max(a, b) == IF a >= b THEN a ELSE b

\* Python's round(x, 2): to the nearest multiple of 0.01, a tie to the even one.
Round2(x) ==
    LET q  == One \div 100
        lo == (x \div q) * q
        r  == x - lo
    IN  IF 2 * r < q THEN lo
        ELSE IF 2 * r > q THEN lo + q
        ELSE IF (lo \div q) % 2 = 0 THEN lo ELSE lo + q

\* ------------------------------------------------------------ embeddings
Dirs == 0..5

\* The cosines of the six directions: the unit vectors of the plane at the
\* angles 0, arccos 0.70000, arccos 0.70004, 120 degrees, -arccos 0.70000 and
\* arccos 0.90000.
CosTable ==
    << << 100000,  70000,  70004, -50000,  70000,  90000 >>,
       <<  70000, 100000, 100000,  26847,  -2000,  94129 >>,
       <<  70004, 100000, 100000,  26841,  -1994,  94131 >>,
       << -50000,  26847,  26841, 100000, -96847,  -7251 >>,
       <<  70000,  -2000,  -1994, -96847, 100000,  31871 >>,
       <<  90000,  94129,  94131,  -7251,  31871, 100000 >> >>

Emb(d, m) == [dir |-> d, mag |-> m]

\* faiss.normalize_L2: the same direction, length 1.
NormalizeL2(e) == [e EXCEPT !.mag = 1]

\* IndexFlatIP's inner product of a query and a stored vector.
InnerProduct(a, b) == CosTable[a.dir + 1][b.dir + 1] * a.mag * b.mag

\* The embeddings the add calls of Spec and of SpecQuery are made with.
LibraryEmbeddings == { Emb(0, 2), Emb(1, 1) }
\* The query embeddings of SpecQuery: against the two stored directions they
\* score 1.0 and 0.7, -0.5 and 0.26847, and 0.7 and -0.02.
Queries == { Emb(0, 2), Emb(3, 1), Emb(4, 1) }
\* The embeddings of the chunks of the documents SpecCheck ingests.
IngestedEmbeddings == { Emb(0, 1), Emb(1, 2), Emb(3, 1) }
\* The embeddings of the chunks of the documents SpecCheck checks: against the
\* three stored directions they score 1.0, 0.7 and -0.5, and 0.70004, 1.0 and
\* 0.26841.
CheckedEmbeddings == { Emb(0, 2), Emb(2, 1) }

\* The embeddings of the chunks of the documents SpecDocument checks: against
\* the three stored directions they score 1.0, 0.7 and -0.5, and 0.9, 0.94129
\* and -0.07251.
DocumentEmbeddings == { Emb(0, 2), Emb(5, 1) }

\* The sequences over S of length at most n.
SeqsUpTo(S, n) == UNION { [1..k -> S] : k \in 0..n }

IsPrefix(s, t) == Len(s) <= Len(t) /\ SubSeq(t, 1, Len(s)) = s

\* ----------------------------------------------------------------- state
VARIABLES
    index,         \* SimilarityChecker.index: the stored (normalised) vectors, in ordinal order
    metadata,      \* SimilarityChecker.metadata
    diskIndex,     \* the file <filepath>.index
    diskMetadata,  \* the file <filepath>_metadata.json
    submissions_db,  \* main.submissions_db: the submission records, in the order stored
    chunks_db,     \* main.chunks_db: the same submissions' chunk embeddings
    last           \* the last call: its operation, arguments and outcome

vars == << index, metadata, diskIndex, diskMetadata, submissions_db, chunks_db, last >>

\* SimilarityChecker.__init__, the empty databases of main.py, and no file
\* written yet.
Init ==
    /\ index = << >>
    /\ metadata = << >>
    /\ diskIndex = [exists |-> FALSE, data |-> << >>]
    /\ diskMetadata = [state |-> "absent", data |-> << >>]
    /\ submissions_db = << >>
    /\ chunks_db = << >>
    /\ last = [op |-> "none"]

\* --------------------------------------------------------- add_embeddings
\* The metadata list a caller builds for a call with n embeddings and m records.
CallerMetadata(n, m) ==
    [i \in 1..m |-> [ordinal |-> IF i <= n THEN Len(index) + i ELSE 0]]

\* An index that puts the added vectors in front of the stored ones.
IndexAfterAdd_Prepending(idx, embeddings) ==
    [i \in 1..Len(embeddings) |-> NormalizeL2(embeddings[i])] \o idx

\* self.index after add_embeddings(embeddings, ...): normalised, appended in order.
IndexAfterAdd(idx, embeddings) ==
    IF embeddings = << >> THEN idx
    ELSE idx \o [i \in 1..Len(embeddings) |-> NormalizeL2(embeddings[i])]

\* self.metadata after add_embeddings(embeddings, metas): extended by metas.
MetadataAfterAdd(md, embeddings, metas) ==
    IF embeddings = << >> THEN md
    ELSE md \o metas

add_embeddings(embeddings, metas) ==
    /\ index' = IndexAfterAdd(index, embeddings)
    /\ metadata' = MetadataAfterAdd(metadata, embeddings, metas)

\* A call of similarity_checker.add_embeddings; it returns None.
add(embeddings, metas) ==
    /\ add_embeddings(embeddings, metas)
    /\ last' = [op |-> "add", embeddings |-> embeddings, metas |-> metas,
                status |-> "ok"]
    /\ UNCHANGED << diskIndex, diskMetadata, submissions_db, chunks_db >>

\* PlagiarismChecker.ingest_code of a document whose chunks have the embeddings
\* `embeddings`; generated: generate_embeddings returns them (it raises when
\* the model is not loaded).  One metadata record is built per chunk.
ingest_code(embeddings, generated) ==
    IF embeddings = << >>
    THEN /\ last' = [op |-> "ingest", embeddings |-> embeddings, success |-> FALSE,
                     error |-> "No valid code chunks found", chunk_count |-> 0]
         /\ UNCHANGED << index, metadata, diskIndex, diskMetadata, submissions_db, chunks_db >>
    ELSE IF ~generated
    THEN /\ last' = [op |-> "ingest", embeddings |-> embeddings, success |-> FALSE,
                     error |-> "Code ingestion failed", chunk_count |-> 0]
         /\ UNCHANGED << index, metadata, diskIndex, diskMetadata, submissions_db, chunks_db >>
    ELSE /\ add_embeddings(embeddings, CallerMetadata(Len(embeddings), Len(embeddings)))
         /\ last' = [op |-> "ingest", embeddings |-> embeddings, success |-> TRUE,
                     chunk_count |-> Len(embeddings)]
         /\ UNCHANGED << diskIndex, diskMetadata, submissions_db, chunks_db >>

\* ------------------------------------------------- save_index, load_index
\* Both files written.
save_index ==
    /\ diskIndex' = [exists |-> TRUE, data |-> index]
    /\ diskMetadata' = [state |-> "ok", data |-> metadata]
    /\ last' = [op |-> "save", status |-> "ok"]
    /\ UNCHANGED << index, metadata, submissions_db, chunks_db >>

\* faiss.write_index succeeds and open(..., 'w') of the metadata file raises:
\* the metadata file is left as it was.
save_index_open_fails ==
    /\ diskIndex' = [exists |-> TRUE, data |-> index]
    /\ last' = [op |-> "save", status |-> "OSError"]
    /\ UNCHANGED << index, metadata, diskMetadata, submissions_db, chunks_db >>

load_index ==
    IF ~diskIndex.exists
    THEN \* faiss.read_index raises
         /\ last' = [op |-> "load", status |-> "RuntimeError"]
         /\ UNCHANGED << index, metadata, diskIndex, diskMetadata, submissions_db, chunks_db >>
    ELSE /\ index' = diskIndex.data
         /\ IF diskMetadata.state = "ok"
            THEN /\ metadata' = diskMetadata.data
                 /\ last' = [op |-> "load", status |-> "ok"]
            ELSE \* open(..., 'r') raises after self.index was replaced
                 /\ metadata' = metadata
                 /\ last' = [op |-> "load", status |-> "FileNotFoundError"]
         /\ UNCHANGED << diskIndex, diskMetadata, submissions_db, chunks_db >>

\* --------------------------------------------------------- search_similar
\* The inner products of the normalised query and the stored vectors.
Scores(idx, q) == [i \in 1..Len(idx) |-> InnerProduct(NormalizeL2(q), idx[i])]

\* self.index.search(query, k): the k best ordinals of S, best first.  Which of
\* two vectors of equal score comes first is faiss's choice: the lower ordinal
\* (lowFirst) or the higher one, the same way throughout a call.
RECURSIVE FaissOrder(_, _, _, _)
FaissOrder(sc, S, k, lowFirst) ==
    IF k = 0 \/ S = {} THEN << >>
    ELSE LET best == { i \in S : \A j \in S : sc[i] >= sc[j] }
             i == IF lowFirst
                  THEN CHOOSE b \in best : \A j \in best : b <= j
                  ELSE CHOOSE b \in best : \A j \in best : b >= j
         IN  << i >> \o FaissOrder(sc, S \ {i}, k - 1, lowFirst)

\* The loop over zip(scores[0], indices[0]): self.metadata[idx] raises
\* IndexError for an ordinal past the end of the metadata list.
SearchResults(idx, md, sc, order) ==
    IF \E j \in 1..Len(order) : order[j] > Len(md)
    THEN [status |-> "IndexError", results |-> << >>]
    ELSE [status |-> "ok",
          results |-> [j \in 1..Len(order) |->
                         [score |-> sc[order[j]],
                          similarity_percentage |-> sc[order[j]] * 100,
                          metadata |-> md[order[j]],
                          idx |-> order[j]]]]

\* The outcome of search_similar(query_embedding, top_k), top_k >= 1.
search_similar(idx, md, q, top_k, lowFirst) ==
    IF Len(idx) = 0
    THEN [status |-> "ok", results |-> << >>]
    ELSE SearchResults(idx, md, Scores(idx, q),
                       FaissOrder(Scores(idx, q), 1..Len(idx), Min(top_k, Len(idx)), lowFirst))

\* ------------------------------------------ calculate_plagiarism_percentage
\* threshold: float = 0.7
DefaultThreshold == (7 * One) \div 10
\* top_k=10 of the search that scoring makes.
ScoreTopK == 10
\* similar_results[:3]
SimilarChunksKept == 3

RECURSIVE SeqMax(_)
SeqMax(s) == IF Len(s) = 1 THEN s[1] ELSE Max(s[1], SeqMax(Tail(s)))
RECURSIVE SeqMin(_)
SeqMin(s) == IF Len(s) = 1 THEN s[1] ELSE Min(s[1], SeqMin(Tail(s)))

Take(s, n) == SubSeq(s, 1, Min(n, Len(s)))

\* The mean of the similarities, in place of their maximum.
RECURSIVE SeqSum(_)
SeqSum(s) == IF s = << >> THEN 0 ELSE Head(s) + SeqSum(Tail(s))
MaxSimilarity_Mean(similar_results) ==
    SeqSum([j \in 1..Len(similar_results) |-> similar_results[j].similarity_percentage])
        \div Len(similar_results)

\* max([result['similarity_percentage'] for result in similar_results])
MaxSimilarity(similar_results) ==
    SeqMax([j \in 1..Len(similar_results) |-> similar_results[j].similarity_percentage])

\* A flag for the similarities strictly above the threshold only.
AboveThreshold_Strict(result, threshold) ==
    result.similarity_percentage > threshold * 100

\* result['similarity_percentage'] >= threshold * 100
AboveThreshold(result, threshold) ==
    result.similarity_percentage >= threshold * 100

\* The last three results, in place of the first three.
SimilarChunks_Last(similar_results) ==
    SubSeq(similar_results, Max(1, Len(similar_results) - SimilarChunksKept + 1),
           Len(similar_results))

\* similar_results[:3]
SimilarChunks(similar_results) == Take(similar_results, SimilarChunksKept)

\* The dictionary calculate_plagiarism_percentage returns for the search
\* results similar_results.
PlagiarismReport(similar_results, threshold) ==
    IF similar_results = << >>
    THEN [plagiarism_percentage |-> 0,
          originality_score |-> Hundred,
          similar_chunks |-> << >>,
          max_similarity |-> 0]
    ELSE LET max_similarity == MaxSimilarity(similar_results)
             plagiarism_percentage == max_similarity
             originality_score == Max(0, Hundred - plagiarism_percentage)
             Flagged(result) == AboveThreshold(result, threshold)
         IN  [plagiarism_percentage |-> Round2(plagiarism_percentage),
              originality_score |-> Round2(originality_score),
              similar_chunks |-> SimilarChunks(similar_results),
              flagged_chunks |-> SelectSeq(similar_results, Flagged),
              max_similarity |-> Round2(max_similarity),
              total_chunks_checked |-> Len(similar_results)]

\* The outcome of calculate_plagiarism_percentage(query_embedding, threshold):
\* the search's exception, or the report; neighbors is similar_results.
calculate_plagiarism_percentage(idx, md, q, threshold, lowFirst) ==
    LET found == search_similar(idx, md, q, ScoreTopK, lowFirst)
    IN  IF found.status = "ok"
        THEN [status |-> "ok", neighbors |-> found.results,
              report |-> PlagiarismReport(found.results, threshold)]
        ELSE [status |-> found.status]

\* ------------------------------------------------------- the check pipeline
\* `> 70.0`, the flag of a checked chunk.
ChunkFlagCutoff == 70 * One
\* flagged_chunks[:3]
TopSimilarKept == 3

\* The scores of the chunks' embeddings: one call of
\* calculate_plagiarism_percentage(embedding) per chunk.
RECURSIVE ScoreChunks(_, _, _, _)
ScoreChunks(idx, md, embeddings, lowFirst) ==
    IF embeddings = << >> THEN << >>
    ELSE << calculate_plagiarism_percentage(idx, md, Head(embeddings),
                                            DefaultThreshold, lowFirst) >>
         \o ScoreChunks(idx, md, Tail(embeddings), lowFirst)

\* A chunk result that is never flagged.
ChunkResult_NeverFlagged(i, plagiarism_result) ==
    [chunk |-> i,
     plagiarism_percentage |-> plagiarism_result.plagiarism_percentage,
     originality_score |-> plagiarism_result.originality_score,
     similar_chunks |-> plagiarism_result.similar_chunks,
     is_flagged |-> FALSE]

\* A chunk result that flags a plagiarism of exactly 70.0 too.
ChunkResult_AtCutoff(i, plagiarism_result) ==
    [chunk |-> i,
     plagiarism_percentage |-> plagiarism_result.plagiarism_percentage,
     originality_score |-> plagiarism_result.originality_score,
     similar_chunks |-> plagiarism_result.similar_chunks,
     is_flagged |-> plagiarism_result.plagiarism_percentage >= ChunkFlagCutoff]

\* chunk_result of chunk i, whose score is plagiarism_result.
ChunkResult(i, plagiarism_result) ==
    [chunk |-> i,
     plagiarism_percentage |-> plagiarism_result.plagiarism_percentage,
     originality_score |-> plagiarism_result.originality_score,
     similar_chunks |-> plagiarism_result.similar_chunks,
     is_flagged |-> plagiarism_result.plagiarism_percentage > ChunkFlagCutoff]

\* The last chunk's plagiarism, in place of the greatest.
OverallPlagiarism_Last(all_results) ==
    IF all_results # << >>
    THEN all_results[Len(all_results)].plagiarism_percentage
    ELSE 0

\* overall_plagiarism: the greatest plagiarism_percentage of the chunks.
OverallPlagiarism(all_results) ==
    IF all_results # << >>
    THEN SeqMax([i \in 1..Len(all_results) |-> all_results[i].plagiarism_percentage])
    ELSE 0

\* overall_originality: the least originality_score of the chunks.
OverallOriginality(all_results) ==
    IF all_results # << >>
    THEN SeqMin([i \in 1..Len(all_results) |-> all_results[i].originality_score])
    ELSE Hundred

\* What the loop over the chunks and the aggregation after it compute from the
\* chunks' scores (all of them "ok").
CheckSummary(scored) ==
    LET all_results == [i \in 1..Len(scored) |-> ChunkResult(i, scored[i].report)]
        IsFlagged(r) == r.is_flagged
        flagged_chunks == SelectSeq(all_results, IsFlagged)
    IN  [plagiarism_percentage |-> Round2(OverallPlagiarism(all_results)),
         originality_score |-> Round2(OverallOriginality(all_results)),
         total_chunks |-> Len(scored),
         flagged_chunks |-> Len(flagged_chunks),
         chunk_results |-> all_results,
         top_similar_chunks |-> Take(flagged_chunks, TopSimilarKept)]

\* The outcomes of the body of a check of a document whose chunks have the
\* embeddings `embeddings`: no chunks, generate_embeddings raising (the model
\* is not loaded), a score raising, or the summary.
CheckOutcomes(idx, md, embeddings) ==
    IF embeddings = << >>
    THEN { [status |-> "no chunks"] }
    ELSE { [status |-> "model not loaded"] } \cup
         { LET scored == ScoreChunks(idx, md, embeddings, lowFirst)
           IN  IF \A i \in 1..Len(scored) : scored[i].status = "ok"
               THEN [status |-> "ok", summary |-> CheckSummary(scored)]
               ELSE [status |-> "IndexError"]
           : lowFirst \in BOOLEAN }

\* A check that also adds the checked chunks to the index, as /upload does.
check_plagiarism_ingesting(embeddings) ==
    /\ \E out \in CheckOutcomes(index, metadata, embeddings) :
          last' = [op |-> "check", embeddings |-> embeddings,
                   http |-> IF out.status = "ok" THEN 200 ELSE 500,
                   out |-> out]
    /\ add_embeddings(embeddings, CallerMetadata(Len(embeddings), Len(embeddings)))
    /\ UNCHANGED << diskIndex, diskMetadata, submissions_db, chunks_db >>

\* POST /check.  Every exception, the HTTPException(400) of a file without
\* chunks included, leaves the handler as HTTPException(500).
check_plagiarism(embeddings) ==
    /\ \E out \in CheckOutcomes(index, metadata, embeddings) :
          last' = [op |-> "check", embeddings |-> embeddings,
                   http |-> IF out.status = "ok" THEN 200 ELSE 500,
                   out |-> out]
    /\ UNCHANGED << index, metadata, diskIndex, diskMetadata, submissions_db, chunks_db >>

\* PlagiarismChecker.check_plagiarism: a dictionary with success False where
\* the handler raises.
PlagiarismChecker_check_plagiarism(embeddings) ==
    /\ \E out \in CheckOutcomes(index, metadata, embeddings) :
          last' = [op |-> "checker_check", embeddings |-> embeddings,
                   success |-> out.status = "ok",
                   out |-> out]
    /\ UNCHANGED << index, metadata, diskIndex, diskMetadata, submissions_db, chunks_db >>

\* ---------------------------------------------------------- /compare_repos
\* What fetching and chunking a repository yields: fetch_repository raises
\* (fetched FALSE), or the embeddings its chunks have (none for a repository
\* without chunks).
Repos ==
    { [fetched |-> FALSE, chunks |-> << >>] } \cup
    { [fetched |-> TRUE, chunks |-> c] :
         c \in { << >>, << Emb(0, 2) >>, << Emb(3, 1) >>, << Emb(3, 1), Emb(0, 2) >> } }

\* No floor: a comparison of any number of repositories is run.
TooFewRepos_Never(urls) == Len(urls) < 0

\* len(urls) < 2
TooFewRepos(urls) == Len(urls) < 2

\* The first chunk's plagiarism_percentage only.
MaxSim_First(scored) ==
    IF scored = << >> THEN 0
    ELSE Max(0, scored[1].report.plagiarism_percentage)

\* The loop over repo_vectors[i]: max_sim starts at 0.0 and takes the greater
\* of itself and each chunk's plagiarism_percentage.
RECURSIVE MaxSim(_)
MaxSim(scored) ==
    IF scored = << >> THEN 0
    ELSE Max(MaxSim(SubSeq(scored, 1, Len(scored) - 1)),
             scored[Len(scored)].report.plagiarism_percentage)

\* The similarity itself, not inverted.
Originality_Same(max_sim) == Max(0, max_sim)

\* originality = max(0.0, 100.0 - max_sim)
Originality(max_sim) == Max(0, Hundred - max_sim)

\* The leaderboard entry of repository i, whose chunks scored `scored`.
LeaderboardEntry(i, repo, scored) ==
    [repo |-> i,
     originality_score |-> Round2(Originality(MaxSim(scored))),
     plagiarism_percentage |-> Round2(MaxSim(scored)),
     chunk_count |-> Len(repo.chunks)]

\* The sort key (-originality_score, plagiarism_percentage) of a is less than b's.
KeyBefore(a, b) ==
    \/ a.originality_score > b.originality_score
    \/ /\ a.originality_score = b.originality_score
       /\ a.plagiarism_percentage < b.plagiarism_percentage

\* The leaderboard left in the order of the urls.
SortLeaderboard_Unsorted(leaderboard) == leaderboard

\* leaderboard.sort(key=...): ascending in the key, entries of equal keys in
\* the order they had.
RECURSIVE SortLeaderboard(_)
SortLeaderboard(leaderboard) ==
    IF leaderboard = << >> THEN << >>
    ELSE LET x == Head(leaderboard)
             rest == SortLeaderboard(Tail(leaderboard))
             ahead == Cardinality({ j \in 1..Len(rest) : KeyBefore(rest[j], x) })
         IN  SubSeq(rest, 1, ahead) \o << x >> \o SubSeq(rest, ahead + 1, Len(rest))

\* The repository cannot be processed: its fetch raises, or it has chunks and
\* generate_embeddings raises (the model is not loaded).
RepoFails(repo, generated) == ~repo.fetched \/ (repo.chunks # << >> /\ ~generated)

\* The number of repositories the first loop stores before it raises or ends.
RECURSIVE ReposStored(_, _)
ReposStored(repos, generated) ==
    IF repos = << >> \/ RepoFails(Head(repos), generated) THEN 0
    ELSE 1 + ReposStored(Tail(repos), generated)

\* The outcomes of the second loop over the repositories, all stored: a score
\* raising, or the sorted leaderboard.
CompareOutcomes(idx, md, repos) ==
    { LET scored == [i \in 1..Len(repos) |-> ScoreChunks(idx, md, repos[i].chunks, lowFirst)]
      IN  IF \A i \in 1..Len(repos) : \A j \in 1..Len(scored[i]) : scored[i][j].status = "ok"
          THEN [status |-> "ok",
                leaderboard |-> SortLeaderboard(
                    [i \in 1..Len(repos) |-> LeaderboardEntry(i, repos[i], scored[i])])]
          ELSE [status |-> "IndexError"]
      : lowFirst \in BOOLEAN }

\* POST /compare_repos with the urls of `repos`.  submission_id, a fresh uuid,
\* is the position of the record in the databases.
compare_repos(repos, generated) ==
    IF TooFewRepos(repos)
    THEN /\ last' = [op |-> "compare", repos |-> repos, http |-> 400, fetches |-> 0]
         /\ UNCHANGED << index, metadata, diskIndex, diskMetadata, submissions_db, chunks_db >>
    ELSE LET stored == ReposStored(repos, generated)
             raised == stored < Len(repos)
         IN  /\ submissions_db' = submissions_db \o
                   [i \in 1..stored |->
                      [submission_id |-> Len(submissions_db) + i,
                       source |-> "github",
                       chunk_count |-> Len(repos[i].chunks)]]
             /\ chunks_db' = chunks_db \o
                   [i \in 1..stored |->
                      [submission_id |-> Len(submissions_db) + i,
                       embeddings |-> repos[i].chunks]]
             /\ IF raised
                THEN last' = [op |-> "compare", repos |-> repos, http |-> 500,
                              fetches |-> stored + 1]
                ELSE \E out \in CompareOutcomes(index, metadata, repos) :
                        last' = [op |-> "compare", repos |-> repos,
                                 http |-> IF out.status = "ok" THEN 200 ELSE 500,
                                 fetches |-> Len(repos),
                                 out |-> out,
                                 repos_compared |-> Len(repos)]
             /\ UNCHANGED << index, metadata, diskIndex, diskMetadata >>

\* ------------------------------------------------------ /upload, /fetch_repo
\* The record a handler stores in submissions_db for a submission of n chunks:
\* submission_id, a fresh uuid, is the position of the record.
SubmissionRecord(source, n) ==
    [submission_id |-> Len(submissions_db) + 1, source |-> source, chunk_count |-> n]

\* The entry a handler stores in chunks_db.
ChunksRecord(embeddings) ==
    [submission_id |-> Len(submissions_db) + 1, embeddings |-> embeddings]

\* An upload that answers 200 whenever the embeddings are generated.
UploadStatus_Lenient(embeddings, generated) == IF ~generated THEN 500 ELSE 200

\* The status POST /upload answers with, for a decodable file within the size
\* limit whose chunks have the embeddings `embeddings`: the HTTPException(400)
\* of a file without chunks and the exception of generate_embeddings both
\* leave the handler as HTTPException(500).
UploadStatus(embeddings, generated) ==
    IF embeddings = << >> \/ ~generated THEN 500 ELSE 200

\* A body that adds the chunks to the index whether or not their embeddings
\* were generated.
upload_code_body_Eager(embeddings, generated) ==
    /\ add_embeddings(embeddings, CallerMetadata(Len(embeddings), Len(embeddings)))
    /\ UNCHANGED << submissions_db, chunks_db >>

\* What the body of POST /upload does to the index and to the databases.
upload_code_body(embeddings, generated) ==
    IF UploadStatus(embeddings, generated) = 200
    THEN /\ submissions_db' = Append(submissions_db,
                                     SubmissionRecord("upload", Len(embeddings)))
         /\ add_embeddings(embeddings, CallerMetadata(Len(embeddings), Len(embeddings)))
         /\ chunks_db' = Append(chunks_db, ChunksRecord(embeddings))
    ELSE UNCHANGED << index, metadata, submissions_db, chunks_db >>

\* POST /upload.
upload_code(embeddings, generated) ==
    /\ upload_code_body(embeddings, generated)
    /\ last' = [op |-> "upload", embeddings |-> embeddings, generated |-> generated,
                http |-> UploadStatus(embeddings, generated)]
    /\ UNCHANGED << diskIndex, diskMetadata >>

\* POST /fetch_repo of the repository repo: fetch_repository raises (500), the
\* repository has no code files (404) or no chunks (400), generate_embeddings
\* raises (500), or the chunks are added and the submission is stored.
fetch_repo(repo, generated) ==
    IF ~repo.fetched
    THEN /\ last' = [op |-> "fetch_repo", embeddings |-> repo.chunks,
                     fetched |-> FALSE, generated |-> generated, http |-> 500]
         /\ UNCHANGED << index, metadata, diskIndex, diskMetadata, submissions_db, chunks_db >>
    ELSE IF repo.chunks = << >>
    THEN /\ \E http \in {404, 400} :
               last' = [op |-> "fetch_repo", embeddings |-> repo.chunks,
                        fetched |-> TRUE, generated |-> generated, http |-> http]
         /\ UNCHANGED << index, metadata, diskIndex, diskMetadata, submissions_db, chunks_db >>
    ELSE IF ~generated
    THEN /\ last' = [op |-> "fetch_repo", embeddings |-> repo.chunks,
                     fetched |-> TRUE, generated |-> generated, http |-> 500]
         /\ UNCHANGED << index, metadata, diskIndex, diskMetadata, submissions_db, chunks_db >>
    ELSE /\ add_embeddings(repo.chunks, CallerMetadata(Len(repo.chunks), Len(repo.chunks)))
         /\ submissions_db' = Append(submissions_db,
                                     SubmissionRecord("github", Len(repo.chunks)))
         /\ chunks_db' = Append(chunks_db, ChunksRecord(repo.chunks))
         /\ last' = [op |-> "fetch_repo", embeddings |-> repo.chunks,
                     fetched |-> TRUE, generated |-> generated, http |-> 200]
         /\ UNCHANGED << diskIndex, diskMetadata >>

\* -------------------------------------------------------------- chunk_code
\* A text is modelled by the number n of words that preprocess_code and
\* split() leave of it; word indices run from 0.

\* A step of the sum of the two, not their difference.
ChunkStride_Sum(max_chunk_size, overlap) == max_chunk_size + overlap

\* max_chunk_size - overlap, the step of the range.
ChunkStride(max_chunk_size, overlap) == max_chunk_size - overlap

\* The number of values of range(0, n, step), step # 0: none for a negative step.
RangeLen(n, step) == IF step > 0 THEN (n + step - 1) \div step ELSE 0

\* A chunk whose end_word is not clamped to the number of words.
ChunkAt_Unclamped(i, n, max_chunk_size) ==
    [start_word |-> i,
     end_word |-> i + max_chunk_size,
     words |-> Max(0, Min(i + max_chunk_size, n) - i)]

\* The chunk that starts at word i: words[i:i + max_chunk_size], i < n.
ChunkAt(i, n, max_chunk_size) ==
    [start_word |-> i,
     end_word |-> Min(i + max_chunk_size, n),
     words |-> Max(0, Min(i + max_chunk_size, n) - i)]

\* The outcome of chunk_code on a text of n words, max_chunk_size >= 1:
\* range() raises ValueError for a step of 0.
chunk_code(n, max_chunk_size, overlap) ==
    LET step == ChunkStride(max_chunk_size, overlap)
        NonEmpty(chunk) == chunk.words > 0
    IN  IF step = 0
        THEN [status |-> "ValueError", chunks |-> << >>]
        ELSE [status |-> "ok",
              chunks |-> SelectSeq([k \in 1..RangeLen(n, step) |->
                                       ChunkAt((k - 1) * step, n, max_chunk_size)],
                                   NonEmpty)]

\* A call of embedding_generator.chunk_code.
chunk(n, max_chunk_size, overlap) ==
    /\ LET out == chunk_code(n, max_chunk_size, overlap)
       IN  last' = [op |-> "chunk", words |-> n, max_chunk_size |-> max_chunk_size,
                    overlap |-> overlap, status |-> out.status, chunks |-> out.chunks]
    /\ UNCHANGED << index, metadata, diskIndex, diskMetadata, submissions_db, chunks_db >>

\* ------------------------------------------------------- search and score
search(q, top_k) ==
    /\ \E lowFirst \in BOOLEAN :
          LET found == search_similar(index, metadata, q, top_k, lowFirst)
          IN  last' = [op |-> "search", query |-> q, top_k |-> top_k,
                       status |-> found.status, results |-> found.results]
    /\ UNCHANGED << index, metadata, diskIndex, diskMetadata, submissions_db, chunks_db >>

score(q, threshold) ==
    /\ \E lowFirst \in BOOLEAN :
          last' = [op |-> "score", query |-> q, threshold |-> threshold,
                   out |-> calculate_plagiarism_percentage(index, metadata, q,
                                                           threshold, lowFirst)]
    /\ UNCHANGED << index, metadata, diskIndex, diskMetadata, submissions_db, chunks_db >>

\* ------------------------------------------------------------------ Spec
\* No call is under way: the last call's outcome has been taken.
Idle == last.op = "none"

\* The caller takes the outcome of the call.
Return ==
    /\ ~Idle
    /\ last' = [op |-> "none"]
    /\ UNCHANGED << index, metadata, diskIndex, diskMetadata, submissions_db, chunks_db >>

\* add_embeddings called with any two lists.
AddCall(cap) ==
    \E embeddings \in SeqsUpTo(LibraryEmbeddings, MaxBatch), m \in 0..MaxBatch :
        /\ Idle
        /\ Len(index) + Len(embeddings) <= cap
        /\ Len(metadata) + m - (Len(index) + Len(embeddings)) \in -MaxSkew..MaxSkew
        /\ add(embeddings, CallerMetadata(Len(embeddings), m))

\* The index and its persistence: add, save, load.
Next ==
    \/ AddCall(MaxStoredLifecycle)
    \/ Idle /\ save_index
    \/ Idle /\ save_index_open_fails
    \/ Idle /\ load_index
    \/ Return

Spec == Init /\ [][Next]_vars

\* ------------------------------------------------------------- SpecQuery
\* The thresholds score is called with: the default, and 0.5.
Thresholds == { DefaultThreshold, One \div 2 }

\* The top_k search is called with: 1, and the two the scoring uses.
TopKs == { 1, SimilarChunksKept, ScoreTopK }

SearchCall == \E q \in Queries, top_k \in TopKs : Idle /\ search(q, top_k)

ScoreCall == \E q \in Queries, threshold \in Thresholds : Idle /\ score(q, threshold)

\* The index and its queries: add, search, score.
NextQuery ==
    \/ AddCall(MaxStored)
    \/ SearchCall
    \/ ScoreCall
    \/ Return

SpecQuery == Init /\ [][NextQuery]_vars

\* ------------------------------------------------------------- SpecCheck
\* ingest_code called while the index holds at most cap vectors after it.
IngestUpTo(cap) ==
    \E embeddings \in SeqsUpTo(IngestedEmbeddings, MaxBatch), generated \in BOOLEAN :
        /\ Idle
        /\ Len(index) + Len(embeddings) <= cap
        /\ ingest_code(embeddings, generated)

IngestCall == IngestUpTo(MaxStored)

ChunkScoreCall ==
    \E q \in CheckedEmbeddings : Idle /\ score(q, DefaultThreshold)

CheckCall ==
    \E embeddings \in SeqsUpTo(CheckedEmbeddings, MaxDocChunks) :
        Idle /\ check_plagiarism(embeddings)

CheckerCheckCall ==
    \E embeddings \in SeqsUpTo(CheckedEmbeddings, MaxDocChunks) :
        Idle /\ PlagiarismChecker_check_plagiarism(embeddings)

\* Documents ingested, scored and checked.
NextCheck ==
    \/ IngestCall
    \/ ChunkScoreCall
    \/ CheckCall
    \/ CheckerCheckCall
    \/ Return

SpecCheck == Init /\ [][NextCheck]_vars

\* ------------------------------------------------------------ SpecCompare
CompareCall ==
    \E repos \in SeqsUpTo(Repos, MaxRepos), generated \in BOOLEAN :
        /\ Idle
        /\ Len(submissions_db) + Len(repos) <= MaxSubmissions
        /\ compare_repos(repos, generated)

\* Documents ingested and repositories compared.
NextCompare ==
    \/ IngestUpTo(MaxStoredLifecycle)
    \/ CompareCall
    \/ Return

SpecCompare == Init /\ [][NextCompare]_vars

\* -------------------------------------------------------------- SpecChunk
ChunkCall ==
    \E n \in 0..MaxWords, max_chunk_size \in 1..MaxChunkSize,
       overlap \in 0..(MaxChunkSize + 1) :
        Idle /\ chunk(n, max_chunk_size, overlap)

\* Texts chunked.
NextChunk ==
    \/ ChunkCall
    \/ Return

SpecChunk == Init /\ [][NextChunk]_vars

\* ------------------------------------------------------------- SpecIngest
\* The embeddings of the chunks of the files uploaded.
UploadedEmbeddings == { Emb(0, 1), Emb(1, 2) }

UploadCall ==
    \E embeddings \in SeqsUpTo(UploadedEmbeddings, MaxDocChunks), generated \in BOOLEAN :
        /\ Idle
        /\ Len(index) + Len(embeddings) <= MaxStoredLifecycle
        /\ Len(submissions_db) < MaxSubmissions
        /\ upload_code(embeddings, generated)

FetchRepoCall ==
    \E repo \in Repos, generated \in BOOLEAN :
        /\ Idle
        /\ Len(index) + Len(repo.chunks) <= MaxStoredLifecycle
        /\ Len(submissions_db) < MaxSubmissions
        /\ fetch_repo(repo, generated)

\* Submissions ingested by the two handlers and by PlagiarismChecker, and
\* documents checked.
NextIngest ==
    \/ UploadCall
    \/ FetchRepoCall
    \/ IngestUpTo(MaxStoredLifecycle)
    \/ CheckCall
    \/ CheckerCheckCall
    \/ Return

SpecIngest == Init /\ [][NextIngest]_vars

\* --------------------------------------------------------- SpecConcurrent
\* An upload and a check in flight at the same time.  The handlers are
\* coroutines of the one event loop of uvicorn.run(app): a handler that runs
\* keeps the loop until it returns or reaches an await.  last holds the two
\* requests: the handler that has the loop (running), and for each request the
\* point its handler is at (pc) and what it has computed.

\* An event loop that may switch handlers at every point.
Awaits_Everywhere(pc) == TRUE

\* The handler at pc is suspended at an await: the only await of upload_code
\* and of check_plagiarism is that of file.read().
Awaits(pc) == pc = "read"

\* The handler that has the loop once a handler h has stepped to pc.
RunningAfter(h, pc) == IF pc = "done" \/ Awaits(pc) THEN "none" ELSE h

\* The event loop can run the handler h.
CanRun(h) ==
    /\ last.op = "requests"
    /\ last.running \in {"none", h}

\* The two requests arrive; each handler starts and awaits its file.
RequestsArrive ==
    \E uploaded \in SeqsUpTo(UploadedEmbeddings, MaxDocChunks), generated \in BOOLEAN,
       checked \in SeqsUpTo(CheckedEmbeddings, MaxDocChunks) :
        /\ Idle
        /\ Len(index) + Len(uploaded) <= MaxStoredLifecycle
        /\ Len(submissions_db) < MaxSubmissions
        /\ last' = [op |-> "requests", running |-> "none",
                    upload |-> [pc |-> "read", embeddings |-> uploaded,
                                generated |-> generated],
                    check |-> [pc |-> "read", embeddings |-> checked]]
        /\ UNCHANGED << index, metadata, diskIndex, diskMetadata, submissions_db, chunks_db >>

\* upload_code resumes with the file: it chunks it, generates the embeddings,
\* stores the submission and builds the metadata of the chunks, or fails.
UploadResume ==
    /\ CanRun("upload")
    /\ last.upload.pc = "read"
    /\ LET u == last.upload
           http == UploadStatus(u.embeddings, u.generated)
       IN  IF http = 200
           THEN /\ submissions_db' = Append(submissions_db,
                                            SubmissionRecord("upload", Len(u.embeddings)))
                /\ last' = [last EXCEPT
                              !.upload = [pc |-> "index.add", embeddings |-> u.embeddings,
                                          generated |-> u.generated,
                                          submission_id |-> Len(submissions_db) + 1,
                                          metas |-> CallerMetadata(Len(u.embeddings),
                                                                   Len(u.embeddings))],
                              !.running = RunningAfter("upload", "index.add")]
           ELSE /\ last' = [last EXCEPT
                              !.upload = [pc |-> "done", embeddings |-> u.embeddings,
                                          generated |-> u.generated, http |-> http],
                              !.running = RunningAfter("upload", "done")]
                /\ UNCHANGED submissions_db
    /\ UNCHANGED << index, metadata, diskIndex, diskMetadata, chunks_db >>

\* add_embeddings normalises the vectors and adds them to the FAISS index.
UploadIndexAdd ==
    /\ CanRun("upload")
    /\ last.upload.pc = "index.add"
    /\ index' = IndexAfterAdd(index, last.upload.embeddings)
    /\ last' = [last EXCEPT !.upload.pc = "metadata.extend",
                            !.running = RunningAfter("upload", "metadata.extend")]
    /\ UNCHANGED << metadata, diskIndex, diskMetadata, submissions_db, chunks_db >>

\* add_embeddings extends the metadata list; upload_code stores the chunks and
\* answers.
UploadMetadataExtend ==
    /\ CanRun("upload")
    /\ last.upload.pc = "metadata.extend"
    /\ metadata' = MetadataAfterAdd(metadata, last.upload.embeddings, last.upload.metas)
    /\ chunks_db' = Append(chunks_db, [submission_id |-> last.upload.submission_id,
                                       embeddings |-> last.upload.embeddings])
    /\ last' = [last EXCEPT
                  !.upload = [pc |-> "done", embeddings |-> last.upload.embeddings,
                              generated |-> last.upload.generated, http |-> 200],
                  !.running = RunningAfter("upload", "done")]
    /\ UNCHANGED << index, diskIndex, diskMetadata, submissions_db >>

\* check_plagiarism resumes with the file and scores its chunks against the
\* index as it is; ntotal and records are the lengths its searches find.
CheckResume ==
    /\ CanRun("check")
    /\ last.check.pc = "read"
    /\ \E out \in CheckOutcomes(index, metadata, last.check.embeddings) :
          last' = [last EXCEPT
                     !.check = [pc |-> "done", embeddings |-> last.check.embeddings,
                                ntotal |-> Len(index), records |-> Len(metadata),
                                http |-> IF out.status = "ok" THEN 200 ELSE 500,
                                out |-> out],
                     !.running = RunningAfter("check", "done")]
    /\ UNCHANGED << index, metadata, diskIndex, diskMetadata, submissions_db, chunks_db >>

\* Both requests are answered.
RequestsAnswered ==
    /\ last.op = "requests"
    /\ last.upload.pc = "done"
    /\ last.check.pc = "done"
    /\ last' = [op |-> "none"]
    /\ UNCHANGED << index, metadata, diskIndex, diskMetadata, submissions_db, chunks_db >>

NextConcurrent ==
    \/ RequestsArrive
    \/ UploadResume
    \/ UploadIndexAdd
    \/ UploadMetadataExtend
    \/ CheckResume
    \/ RequestsAnswered

SpecConcurrent == Init /\ [][NextConcurrent]_vars

\* ----------------------------------------------------------- SpecDocument
DocumentCheckCall ==
    \E embeddings \in SeqsUpTo(DocumentEmbeddings, MaxLongDocChunks) :
        Idle /\ check_plagiarism(embeddings)

DocumentCheckerCheckCall ==
    \E embeddings \in SeqsUpTo(DocumentEmbeddings, MaxLongDocChunks) :
        Idle /\ PlagiarismChecker_check_plagiarism(embeddings)

\* Documents ingested, and documents of more chunks than top_similar_chunks
\* keeps checked.
NextDocument ==
    \/ IngestUpTo(MaxStoredLifecycle)
    \/ DocumentCheckCall
    \/ DocumentCheckerCheckCall
    \/ Return

SpecDocument == Init /\ [][NextDocument]_vars

\* ------------------------------------------------------------- SpecServer
\* The requests of the server that write the index or the databases, and
\* checks.
NextServer ==
    \/ UploadCall
    \/ FetchRepoCall
    \/ CheckCall
    \/ CompareCall
    \/ Return

SpecServer == Init /\ [][NextServer]_vars

\* ============================================================ properties
\* The neighbor of ordinal i is among the results rs.
Holds(rs, i) == \E j \in 1..Len(rs) : rs[j].idx = i

\* The last call is a score that returned a report.
Scored == last.op = "score" /\ last.out.status = "ok"

\* m is the greatest similarity_percentage of the neighbors ns (not empty).
IsGreatest(m, ns) ==
    /\ \E j \in 1..Len(ns) : ns[j].similarity_percentage = m
    /\ \A j \in 1..Len(ns) : ns[j].similarity_percentage <= m

\* ---- C1 (Spec)
\* C1, as stated: in every reachable state the index holds as many vectors as
\* the metadata list holds records.
C1_LengthsAgree == Len(index) = Len(metadata)

\* ---- C2 (Spec)
\* C2, as stated: an add whose two lists differ in length is rejected with
\* InvalidArgument and leaves the index and the metadata list as they were.
C2_MismatchedAddRejected ==
    [][(last'.op = "add" /\ Len(last'.embeddings) # Len(last'.metas))
          => /\ last'.status = "InvalidArgument"
             /\ index' = index
             /\ metadata' = metadata]_vars

\* ---- C3 (SpecQuery)
\* C3, as stated: after any sequence of adds, every search returns, and each
\* neighbor it returns carries the metadata record that was supplied with that
\* neighbor's own embedding.
C3_NeighborsCarryOwnMetadata ==
    last.op = "search" =>
        /\ last.status = "ok"
        /\ \A j \in 1..Len(last.results) :
              last.results[j].metadata.ordinal = last.results[j].idx

\* ---- C4 (Spec)
\* What an add of the last call's lists has to have done to `before` to give
\* `after`: nothing for no embeddings, and otherwise the normalised embeddings
\* at the next ordinals, in the order given.
Appended(before, after, embeddings) ==
    /\ Len(after) = Len(before) + Len(embeddings)
    /\ \A i \in 1..Len(embeddings) :
          after[Len(before) + i] = NormalizeL2(embeddings[i])

\* C4, as stated: every step keeps every stored vector and every stored record
\* at its ordinal (so the number of vectors never decreases), and an add puts
\* its embeddings at the next ordinals in order, an add of none changing nothing.
C4_AppendOnly ==
    [][/\ IsPrefix(index, index')
       /\ IsPrefix(metadata, metadata')
       /\ last'.op = "add" => Appended(index, index', last'.embeddings)
       /\ (last'.op = "add" /\ last'.embeddings = << >>)
             => (index' = index /\ metadata' = metadata)]_vars

\* C4, amended: the same of every step that is not a load_index; load_index
\* replaces the index by the one read from the file.
C4_AppendOnlyExceptLoad ==
    [][/\ last'.op # "load"
          => /\ IsPrefix(index, index')
             /\ IsPrefix(metadata, metadata')
             /\ last'.op = "add" => Appended(index, index', last'.embeddings)
             /\ (last'.op = "add" /\ last'.embeddings = << >>)
                   => (index' = index /\ metadata' = metadata)
       /\ (last'.op = "load" /\ last'.status = "ok")
          => (index' = diskIndex.data /\ metadata' = diskMetadata.data)]_vars

\* An add has put a vector behind vectors that were stored before it.
C4_AddedBehindStored ==
    /\ last.op = "add"
    /\ last.embeddings # << >>
    /\ Len(index) > Len(last.embeddings)

\* ---- C5 (SpecCheck)
\* C5: a score of an embedding and a check of a document, by the handler or by
\* PlagiarismChecker, leave the index and the metadata list as they were.
C5_ScoringLeavesIndex ==
    [][last'.op \in {"score", "check", "checker_check"}
          => (index' = index /\ metadata' = metadata)]_vars

\* A document with chunks has been checked against an index that holds vectors,
\* and the check returned its summary.
C5_CheckedAgainstStored ==
    /\ last.op = "check"
    /\ last.out.status = "ok"
    /\ last.embeddings # << >>
    /\ index # << >>

\* ---- C6 (SpecQuery)
\* C6, as stated: a search returns exactly min(top_k, number of stored vectors)
\* neighbors, in descending order of score, and none on an empty index.
C6_SearchReturnsTopK ==
    last.op = "search" =>
        /\ last.status = "ok"
        /\ Len(last.results) = Min(last.top_k, Len(index))
        /\ \A j \in 1..(Len(last.results) - 1) :
              last.results[j].score >= last.results[j + 1].score
        /\ index = << >> => last.results = << >>

\* ---- C7 (SpecQuery)
\* C7, as stated: a score against an empty index reports plagiarism 0.0 and
\* originality 100.0, with similar_chunks and flagged_chunks both present and
\* empty.
C7_EmptyIndexReport ==
    (last.op = "score" /\ index = << >>) =>
        /\ last.out.status = "ok"
        /\ last.out.report.plagiarism_percentage = 0
        /\ last.out.report.originality_score = Hundred
        /\ "similar_chunks" \in DOMAIN last.out.report
        /\ last.out.report.similar_chunks = << >>
        /\ "flagged_chunks" \in DOMAIN last.out.report
        /\ last.out.report.flagged_chunks = << >>

\* ---- C8 (SpecQuery)
\* C8, as stated: when neighbors are found, plagiarism_percentage is the
\* greatest similarity_percentage among them and originality_score is
\* max(0, 100 - plagiarism_percentage).
C8_MaxSimilarity ==
    (Scored /\ last.out.neighbors # << >>) =>
        /\ IsGreatest(last.out.report.plagiarism_percentage, last.out.neighbors)
        /\ last.out.report.originality_score
              = Max(0, Hundred - last.out.report.plagiarism_percentage)

\* C8, amended: plagiarism_percentage is the greatest similarity_percentage
\* among the neighbors rounded to two decimals, and originality_score is
\* max(0, 100 - that greatest similarity) rounded to two decimals.
C8_MaxSimilarityRounded ==
    (Scored /\ last.out.neighbors # << >>) =>
        \E m \in { last.out.neighbors[j].similarity_percentage :
                      j \in 1..Len(last.out.neighbors) } :
            /\ IsGreatest(m, last.out.neighbors)
            /\ last.out.report.plagiarism_percentage = Round2(m)
            /\ last.out.report.originality_score = Round2(Max(0, Hundred - m))

\* A score found neighbors of different similarities, the greatest of them not
\* a multiple of 0.01, so that the reported percentage is not that similarity.
C8_RoundedMaximum ==
    /\ Scored
    /\ Len(last.out.neighbors) >= 2
    /\ \E j \in 1..Len(last.out.neighbors) :
          /\ IsGreatest(last.out.neighbors[j].similarity_percentage, last.out.neighbors)
          /\ last.out.neighbors[j].similarity_percentage
                # last.out.report.plagiarism_percentage
          /\ \E k \in 1..Len(last.out.neighbors) :
                last.out.neighbors[k].similarity_percentage
                   < last.out.neighbors[j].similarity_percentage

\* ---- C9 (SpecQuery)
\* C9: when neighbors are found, flagged_chunks holds exactly the neighbors
\* whose similarity_percentage is at least threshold * 100, the one exactly at
\* the threshold included, each once and in the neighbors' order.
C9_FlaggedIffAtThreshold ==
    (Scored /\ last.out.neighbors # << >>) =>
        LET ns == last.out.neighbors
            flagged == last.out.report.flagged_chunks
        IN  /\ \A j \in 1..Len(ns) :
                  Holds(flagged, ns[j].idx)
                     <=> ns[j].similarity_percentage >= last.threshold * 100
            /\ \A i \in 1..Len(flagged) :
                  \E j \in 1..Len(ns) : flagged[i] = ns[j]
            /\ \A i, k \in 1..Len(flagged) :
                  i < k => \E j, l \in 1..Len(ns) :
                              j < l /\ flagged[i] = ns[j] /\ flagged[k] = ns[l]

\* A score flagged a neighbor whose similarity is exactly the threshold, and
\* left a neighbor below the threshold unflagged.
C9_FlaggedAtThreshold ==
    /\ Scored
    /\ \E j \in 1..Len(last.out.neighbors) :
          /\ last.out.neighbors[j].similarity_percentage = last.threshold * 100
          /\ Holds(last.out.report.flagged_chunks, last.out.neighbors[j].idx)
    /\ \E j \in 1..Len(last.out.neighbors) :
          /\ last.out.neighbors[j].similarity_percentage < last.threshold * 100
          /\ ~Holds(last.out.report.flagged_chunks, last.out.neighbors[j].idx)

\* ---- C10 (SpecQuery)
\* C10: similar_chunks holds the min(3, number of neighbors) neighbors of the
\* highest scores, best first, whatever the threshold: no neighbor left out
\* scores above one that is in, and it is not empty when neighbors are found.
C10_SimilarChunksTop3 ==
    Scored =>
        LET ns == last.out.neighbors
            similar == last.out.report.similar_chunks
        IN  /\ Len(similar) = Min(SimilarChunksKept, Len(ns))
            /\ ns # << >> => similar # << >>
            /\ \A i \in 1..Len(similar) : \E j \in 1..Len(ns) : similar[i] = ns[j]
            /\ \A i, k \in 1..Len(similar) :
                  (i # k) => similar[i].idx # similar[k].idx
            /\ \A i \in 1..(Len(similar) - 1) : similar[i].score >= similar[i + 1].score
            /\ \A i \in 1..Len(similar), j \in 1..Len(ns) :
                  ~Holds(similar, ns[j].idx) => ns[j].score <= similar[i].score

\* A score found four neighbors and kept three of them, leaving out one of a
\* lower score than each of the three, none of the three flagged.
C10_ThreeOfFour ==
    /\ Scored
    /\ Len(last.out.neighbors) = 4
    /\ Len(last.out.report.similar_chunks) = 3
    /\ last.out.report.flagged_chunks = << >>
    /\ \E j \in 1..4 :
          /\ ~Holds(last.out.report.similar_chunks, last.out.neighbors[j].idx)
          /\ \A i \in 1..3 :
                last.out.neighbors[j].score < last.out.report.similar_chunks[i].score

\* ---- C11 (SpecCheck)
\* The last call is a check, by the handler or by PlagiarismChecker, that
\* returned its summary.
Checked == last.op \in {"check", "checker_check"} /\ last.out.status = "ok"

\* C11: the overall plagiarism of a checked document is the greatest
\* plagiarism_percentage of its chunks, and its overall originality is the
\* least originality_score of its chunks.
C11_OverallIsMaxAndMin ==
    Checked =>
        LET rs == last.out.summary.chunk_results
        IN  /\ rs # << >>
            /\ \E i \in 1..Len(rs) :
                  rs[i].plagiarism_percentage = last.out.summary.plagiarism_percentage
            /\ \A i \in 1..Len(rs) :
                  rs[i].plagiarism_percentage <= last.out.summary.plagiarism_percentage
            /\ \E i \in 1..Len(rs) :
                  rs[i].originality_score = last.out.summary.originality_score
            /\ \A i \in 1..Len(rs) :
                  rs[i].originality_score >= last.out.summary.originality_score

\* A checked document has two chunks, the first of a greater plagiarism and a
\* lesser originality than the second.
C11_TwoUnequalChunks ==
    /\ Checked
    /\ Len(last.out.summary.chunk_results) = 2
    /\ last.out.summary.chunk_results[1].plagiarism_percentage
          > last.out.summary.chunk_results[2].plagiarism_percentage
    /\ last.out.summary.chunk_results[1].originality_score
          < last.out.summary.chunk_results[2].originality_score

\* ---- C12 (SpecCheck)
\* C12: a chunk of a checked document is flagged exactly when its own
\* plagiarism_percentage is above 70.0, and the reported count of flagged
\* chunks is the number of chunks flagged.
C12_FlaggedAboveSeventy ==
    Checked =>
        LET rs == last.out.summary.chunk_results
        IN  /\ \A i \in 1..Len(rs) :
                  rs[i].is_flagged <=> rs[i].plagiarism_percentage > 70 * One
            /\ last.out.summary.flagged_chunks
                  = Cardinality({ i \in 1..Len(rs) : rs[i].is_flagged })

\* A checked document has a chunk of plagiarism exactly 70.0, not flagged, and
\* a chunk that is flagged.
C12_ChunkAtSeventy ==
    /\ Checked
    /\ \E i \in 1..Len(last.out.summary.chunk_results) :
          /\ last.out.summary.chunk_results[i].plagiarism_percentage = 70 * One
          /\ ~last.out.summary.chunk_results[i].is_flagged
    /\ \E i \in 1..Len(last.out.summary.chunk_results) :
          last.out.summary.chunk_results[i].is_flagged
    /\ last.out.summary.flagged_chunks = 1

\* ---- C13 (SpecCompare)
\* The last call is a comparison that returned its leaderboard.
Compared == last.op = "compare" /\ last.http = 200

\* The number of chunks of the repositories repos.
RECURSIVE ChunksOf(_)
ChunksOf(repos) ==
    IF repos = << >> THEN 0 ELSE Len(Head(repos).chunks) + ChunksOf(Tail(repos))

\* C13, as stated: when a comparison succeeds, the index holds every vector of
\* every compared repository, the index the scores were computed against.
C13_ComparedCorporaIndexed ==
    Compared =>
        /\ Len(index) >= ChunksOf(last.repos)
        /\ \A i \in 1..Len(last.repos) : \A j \in 1..Len(last.repos[i].chunks) :
              \E k \in 1..Len(index) : index[k] = NormalizeL2(last.repos[i].chunks[j])

\* ---- C14 (SpecCompare)
\* The plagiarism_percentage of the scores of the chunks of a repository
\* against the index.
ChunkPlagiarisms(chunks) ==
    { calculate_plagiarism_percentage(index, metadata, chunks[j], DefaultThreshold, TRUE)
          .report.plagiarism_percentage : j \in 1..Len(chunks) }

\* C14, as stated: the plagiarism_percentage of every leaderboard entry is the
\* greatest plagiarism_percentage of the scores of its repository's chunks,
\* and its originality_score is max(0, 100 - that).
C14_EntryIsChunkMaximum ==
    Compared =>
        \A e \in 1..Len(last.out.leaderboard) :
            LET entry == last.out.leaderboard[e]
                ps == ChunkPlagiarisms(last.repos[entry.repo].chunks)
            IN  /\ entry.plagiarism_percentage \in ps
                /\ \A p \in ps : p <= entry.plagiarism_percentage
                /\ entry.originality_score = Max(0, Hundred - entry.plagiarism_percentage)

\* C14, amended: the plagiarism_percentage of every leaderboard entry is the
\* greatest of 0.0 and the plagiarism_percentage of the scores of its
\* repository's chunks (0.0 for a repository without chunks), and its
\* originality_score is max(0, 100 - that).
C14_EntryIsChunkMaximumFromZero ==
    Compared =>
        \A e \in 1..Len(last.out.leaderboard) :
            LET entry == last.out.leaderboard[e]
                ps == ChunkPlagiarisms(last.repos[entry.repo].chunks) \cup {0}
            IN  /\ entry.plagiarism_percentage \in ps
                /\ \A p \in ps : p <= entry.plagiarism_percentage
                /\ entry.originality_score = Max(0, Hundred - entry.plagiarism_percentage)

\* A comparison returned an entry for a repository of two chunks with
\* different scores, the second the greater, and an entry of plagiarism 0.0
\* for a repository whose only chunk scores below 0.0.
C14_MaximumAndFloor ==
    /\ Compared
    /\ \E e \in 1..Len(last.out.leaderboard) :
          LET chunks == last.repos[last.out.leaderboard[e].repo].chunks
          IN  /\ Len(chunks) = 2
              /\ ChunkPlagiarisms(SubSeq(chunks, 1, 1)) # ChunkPlagiarisms(SubSeq(chunks, 2, 2))
              /\ ChunkPlagiarisms(SubSeq(chunks, 2, 2))
                    = { last.out.leaderboard[e].plagiarism_percentage }
    /\ \E e \in 1..Len(last.out.leaderboard) :
          LET chunks == last.repos[last.out.leaderboard[e].repo].chunks
          IN  /\ Len(chunks) = 1
              /\ \A p \in ChunkPlagiarisms(chunks) : p < 0
              /\ last.out.leaderboard[e].plagiarism_percentage = 0

\* ---- C15 (SpecCompare)
\* C15: the leaderboard of a comparison has exactly one entry for each
\* repository supplied, in descending order of originality_score, entries of
\* equal originality_score in ascending order of plagiarism_percentage.
C15_LeaderboardOrdered ==
    Compared =>
        LET lb == last.out.leaderboard
        IN  /\ Len(lb) = Len(last.repos)
            /\ \A i \in 1..Len(last.repos) :
                  Cardinality({ e \in 1..Len(lb) : lb[e].repo = i }) = 1
            /\ \A e \in 1..(Len(lb) - 1) :
                  \/ lb[e].originality_score > lb[e + 1].originality_score
                  \/ /\ lb[e].originality_score = lb[e + 1].originality_score
                     /\ lb[e].plagiarism_percentage <= lb[e + 1].plagiarism_percentage

\* A comparison of three repositories returned them in another order than
\* supplied, the first entry of a greater originality than the last.
C15_Reordered ==
    /\ Compared
    /\ Len(last.out.leaderboard) = 3
    /\ last.out.leaderboard[1].repo = 3
    /\ last.out.leaderboard[1].originality_score > last.out.leaderboard[3].originality_score

\* ---- C16 (SpecCompare)
\* C16: a comparison supplied with fewer than two repositories is refused
\* (status 400) before any repository is fetched, and leaves the index, the
\* metadata list, submissions_db and chunks_db as they were.
C16_TooFewReposRefused ==
    [][(last'.op = "compare" /\ Len(last'.repos) < 2)
          => /\ last'.http = 400
             /\ last'.fetches = 0
             /\ index' = index
             /\ metadata' = metadata
             /\ submissions_db' = submissions_db
             /\ chunks_db' = chunks_db]_vars

\* A comparison of one repository, which could have been fetched and has
\* chunks, was refused.
C16_OneRepoRefused ==
    /\ last.op = "compare"
    /\ Len(last.repos) = 1
    /\ last.repos[1].fetched
    /\ last.repos[1].chunks # << >>
    /\ last.http = 400

\* ---- C17 (SpecCompare)
\* The place of repository i in the leaderboard lb.
Rank(lb, i) == CHOOSE e \in 1..Len(lb) : lb[e].repo = i

\* Every chunk of the repository is in the index.
Ingested(repo) ==
    \A j \in 1..Len(repo.chunks) :
        \E k \in 1..Len(index) : index[k] = NormalizeL2(repo.chunks[j])

\* No chunk of the repository has a similarity of 100.00 to a vector of the index.
Disjoint(repo) ==
    \A j \in 1..Len(repo.chunks) : \A k \in 1..Len(index) :
        Round2(InnerProduct(NormalizeL2(repo.chunks[j]), index[k]) * 100) < Hundred

\* Repositories a, b and c of the last comparison are: a the same as b, b
\* ingested before, and c disjoint from everything in the index.
Overlapping(a, b, c) ==
    /\ a # b
    /\ last.repos[a].chunks = last.repos[b].chunks
    /\ last.repos[b].chunks # << >>
    /\ Ingested(last.repos[b])
    /\ Disjoint(last.repos[c])

\* C17: when a comparison is run over a repository A that is the same as a
\* repository B ingested before, over B, and over a repository C disjoint from
\* everything in the index, C is placed before A and before B in the
\* leaderboard, with a greater originality_score than either.
C17_DisjointRanksFirst ==
    Compared =>
        \A a, b, c \in 1..Len(last.repos) :
            Overlapping(a, b, c) =>
                LET lb == last.out.leaderboard
                IN  /\ Rank(lb, c) < Rank(lb, a)
                    /\ Rank(lb, c) < Rank(lb, b)
                    /\ lb[Rank(lb, c)].originality_score > lb[Rank(lb, a)].originality_score
                    /\ lb[Rank(lb, c)].originality_score > lb[Rank(lb, b)].originality_score

\* A comparison was run over A, B and C in this order, C with a chunk, and
\* returned C first.
C17_DisjointSuppliedLast ==
    /\ Compared
    /\ Len(last.repos) = 3
    /\ Overlapping(1, 2, 3)
    /\ last.repos[3].chunks # << >>
    /\ last.out.leaderboard[1].repo = 3

\* ---- C18 (SpecChunk)
\* C18, as stated: a chunking with overlap >= max_chunk_size fails with an
\* argument error (ValueError is Python's), whatever the text; it does not
\* return a list of chunks.
C18_NoStrideRejected ==
    (last.op = "chunk" /\ last.overlap >= last.max_chunk_size) =>
        last.status \in {"InvalidArgument", "ValueError"}

\* ---- C19 (SpecChunk)
\* C19: for 0 <= overlap < max_chunk_size, every word index of the text is in
\* the range from start_word to end_word (excluded) of a chunk returned.
C19_ChunksCoverWords ==
    (last.op = "chunk" /\ 0 <= last.overlap /\ last.overlap < last.max_chunk_size) =>
        /\ last.status = "ok"
        /\ \A w \in 0..(last.words - 1) :
              \E k \in 1..Len(last.chunks) :
                  last.chunks[k].start_word <= w /\ w < last.chunks[k].end_word

\* A text was cut into three chunks or more that overlap, the last one
\* shorter than max_chunk_size.
C19_OverlappingChunks ==
    /\ last.op = "chunk"
    /\ last.overlap >= 1
    /\ last.overlap < last.max_chunk_size
    /\ Len(last.chunks) >= 3
    /\ last.chunks[2].start_word < last.chunks[1].end_word
    /\ last.chunks[Len(last.chunks)].words < last.max_chunk_size

\* ---- C20 (Spec)
\* C20, as stated: a load of an index file and a metadata file that hold
\* different numbers of entries fails with IndexCorruption, and a load that
\* fails leaves the index and the metadata list in memory as they were.
C20_LoadRefusesMismatch ==
    [][last'.op = "load"
          => /\ (/\ diskIndex.exists
                 /\ diskMetadata.state = "ok"
                 /\ Len(diskIndex.data) # Len(diskMetadata.data))
                => last'.status = "IndexCorruption"
             /\ last'.status # "ok" => (index' = index /\ metadata' = metadata)]_vars

\* ---- C21 (SpecIngest)
\* The step is an ingest, by /upload, /fetch_repo or ingest_code, of chunks
\* whose embeddings generate_embeddings failed to produce.
GenerationFailed(l) ==
    \/ /\ l.op = "upload"
       /\ l.embeddings # << >>
       /\ ~l.generated
    \/ /\ l.op = "fetch_repo"
       /\ l.fetched
       /\ l.embeddings # << >>
       /\ ~l.generated
    \/ /\ l.op = "ingest"
       /\ l.embeddings # << >>
       /\ ~l.success
       /\ l.error = "Code ingestion failed"

\* The caller of the call l is told that it failed.
Reported(l) ==
    IF l.op \in {"ingest", "checker_check"} THEN ~l.success ELSE l.http >= 400

\* C21: an ingest whose embedding generation fails reports the failure to its
\* caller and adds no vector and no metadata record to the index.
C21_FailedGenerationAddsNothing ==
    [][GenerationFailed(last')
          => /\ Reported(last')
             /\ index' = index
             /\ metadata' = metadata]_vars

\* An upload of a file with chunks failed for its embeddings, the index
\* holding vectors of an earlier submission.
C21_UploadWithoutModel ==
    /\ GenerationFailed(last)
    /\ last.op = "upload"
    /\ last.http = 500
    /\ index # << >>

\* ---- C23 (SpecIngest)
\* The step is an ingest or a check of a source that was read and has no chunks.
NoChunks(l) ==
    /\ l.op \in {"upload", "fetch_repo", "ingest", "check", "checker_check"}
    /\ l.embeddings = << >>
    /\ l.op = "fetch_repo" => l.fetched

\* C23: an ingest or a check of a source without chunks reports an error to
\* its caller and leaves the index, the metadata list, submissions_db and
\* chunks_db as they were.
C23_NoChunksIsAnError ==
    [][NoChunks(last')
          => /\ Reported(last')
             /\ index' = index
             /\ metadata' = metadata
             /\ submissions_db' = submissions_db
             /\ chunks_db' = chunks_db]_vars

\* A file without chunks was uploaded, the model loaded, after a submission
\* was stored.
C23_EmptyUpload ==
    /\ NoChunks(last)
    /\ last.op = "upload"
    /\ last.generated
    /\ submissions_db # << >>

\* ---- C22 (SpecConcurrent)
\* C22: with an upload and a check in flight at the same time, the check's
\* searches find as many vectors in the index as metadata records, and none of
\* them fails for an ordinal without metadata.
C22_SearchSeesEqualCounts ==
    (last.op = "requests" /\ last.check.pc = "done")
        => /\ last.check.ntotal = last.check.records
           /\ last.check.out.status # "IndexError"

\* The check scored its chunks while the upload was awaiting its file, and the
\* upload then added its vectors.
C22_CheckedDuringUpload ==
    /\ last.op = "requests"
    /\ last.check.pc = "done"
    /\ last.check.http = 200
    /\ last.upload.pc = "done"
    /\ last.upload.http = 200
    /\ last.check.ntotal > 0
    /\ last.check.ntotal < Len(index)

\* ---- C24 (SpecChunk)
\* C24: for 0 <= overlap < max_chunk_size, the first chunk of a text with
\* words starts at word 0, consecutive chunks start max_chunk_size - overlap
\* words apart, and every chunk has start_word < end_word <= the number of
\* words, end_word = min(start_word + max_chunk_size, number of words), and
\* at least one word.
C24_SlidingWindows ==
    (last.op = "chunk" /\ 0 <= last.overlap /\ last.overlap < last.max_chunk_size) =>
        /\ last.status = "ok"
        /\ last.words > 0 => (last.chunks # << >> /\ last.chunks[1].start_word = 0)
        /\ last.words = 0 => last.chunks = << >>
        /\ \A k \in 1..(Len(last.chunks) - 1) :
              last.chunks[k + 1].start_word - last.chunks[k].start_word
                  = last.max_chunk_size - last.overlap
        /\ \A k \in 1..Len(last.chunks) :
              /\ last.chunks[k].start_word < last.chunks[k].end_word
              /\ last.chunks[k].end_word <= last.words
              /\ last.chunks[k].end_word
                    = Min(last.chunks[k].start_word + last.max_chunk_size, last.words)
              /\ last.chunks[k].words > 0

\* A text was cut into two chunks or more, the window of the last one reaching
\* past the end of the text.
C24_ClampedLastWindow ==
    /\ last.op = "chunk"
    /\ last.overlap < last.max_chunk_size
    /\ Len(last.chunks) >= 2
    /\ last.chunks[Len(last.chunks)].start_word + last.max_chunk_size > last.words
    /\ last.chunks[Len(last.chunks)].end_word = last.words

\* ---- C25 (SpecDocument)
\* C25, as stated: top_similar_chunks holds the most similar flagged chunks of
\* a checked document: no flagged chunk that is not in top_similar_chunks has
\* a greater plagiarism_percentage than a chunk that is in it.
C25_TopThreeMostSimilar ==
    Checked =>
        LET rs == last.out.summary.chunk_results
            top == last.out.summary.top_similar_chunks
            InTop(r) == \E t \in 1..Len(top) : top[t].chunk = r.chunk
        IN  \A i \in 1..Len(rs) :
                (rs[i].is_flagged /\ ~InTop(rs[i])) =>
                    \A t \in 1..Len(top) :
                        rs[i].plagiarism_percentage <= top[t].plagiarism_percentage

\* ---- C26 (SpecQuery)
\* C26, as stated: the plagiarism_percentage and the originality_score of
\* every report a score returns lie between 0.0 and 100.0.
C26_ScoresWithinRange ==
    Scored =>
        /\ 0 <= last.out.report.plagiarism_percentage
        /\ last.out.report.plagiarism_percentage <= Hundred
        /\ 0 <= last.out.report.originality_score
        /\ last.out.report.originality_score <= Hundred

\* ---- C27 (SpecQuery)
\* C27, as stated: an add never lowers the plagiarism_percentage, and never
\* raises the originality_score, that a score of the same query returns after
\* it, whatever the index held before, the empty index included.
C27_AddNeverLowersPlagiarism ==
    [][last'.op = "add" =>
          \A q \in Queries, lowFirst \in BOOLEAN :
              LET before == calculate_plagiarism_percentage(index, metadata, q,
                                                            DefaultThreshold, lowFirst)
                  after == calculate_plagiarism_percentage(index', metadata', q,
                                                           DefaultThreshold, lowFirst)
              IN  (before.status = "ok" /\ after.status = "ok") =>
                      /\ after.report.plagiarism_percentage
                            >= before.report.plagiarism_percentage
                      /\ after.report.originality_score
                            <= before.report.originality_score]_vars

\* ---- C28 (SpecCheck)
\* The flagged_chunks of the report that calculate_plagiarism_percentage
\* returns for chunk i of the checked document, under the default threshold;
\* none where the report has no such list.
OwnFlaggedChunks(i) ==
    LET own == calculate_plagiarism_percentage(index, metadata, last.embeddings[i],
                                               DefaultThreshold, TRUE)
    IN  IF own.status = "ok" /\ "flagged_chunks" \in DOMAIN own.report
        THEN own.report.flagged_chunks
        ELSE << >>

RECURSIVE ChunkCountSum(_)
ChunkCountSum(db) ==
    IF db = << >> THEN 0 ELSE Head(db).chunk_count + ChunkCountSum(Tail(db))

\* C29, as stated: whatever requests were served, the index holds as many
\* vectors as the chunk_count of the records of submissions_db add up to, and
\* the vector of every chunk of every submission recorded.
C29_RecordsAgreeWithIndex ==
    /\ Len(index) = ChunkCountSum(submissions_db)
    /\ \A s \in 1..Len(chunks_db) : \A j \in 1..Len(chunks_db[s].embeddings) :
          \E k \in 1..Len(index) : index[k] = NormalizeL2(chunks_db[s].embeddings[j])

\* ---- C30 (SpecCompare)
\* C30, as stated: a comparison that fails after its request was accepted
\* leaves submissions_db, chunks_db and the index as they were before it.
C30_FailedComparisonLeavesNoTrace ==
    [][(last'.op = "compare" /\ last'.http = 500)
          => /\ submissions_db' = submissions_db
             /\ chunks_db' = chunks_db
             /\ index' = index
             /\ metadata' = metadata]_vars

====
